---------------------------- MODULE Spec2Model ----------------------------
(***************************************************************************)
(* A model of FuzzyLoanController (src/fuzzy_loan_controller.py): the      *)
(* triangular and trapezoidal membership functions, the four input         *)
(* fuzzifiers, the eight-rule Mamdani rule bank, the sampled centroid      *)
(* defuzzifier and evaluate_loan_application.                              *)
(*                                                                         *)
(* Real numbers are modelled exactly.  A membership degree, an input value *)
(* or a grid point is a rational <<n, d>> in lowest terms with d > 0; the  *)
(* pair <<0, 0>> stands for the ZeroDivisionError Python raises on x / 0.  *)
(* A centroid, whose numerator and denominator are sums over a thousand    *)
(* grid points, is kept as a mixed number (see Centroid below).            *)
(***************************************************************************)
EXTENDS Integers, Sequences, FiniteSets, TLC

VARIABLES
    flc,        \* the controller object: its instance attributes, by name
    result,     \* what the last evaluate_loan_application call returned
    exc,        \* the exception the last call raised to its caller, if any
    arg,        \* the caller's input dictionary, as the last call left it
    ncalls,     \* history: the number of calls made on the controller
    ran,        \* history: the methods that have completed on the controller
    viz,        \* how the last visualize_inference_process call ended
    held,       \* the results the caller keeps to pass to the visualizer
    th,         \* the frames of the calls running concurrently, by thread
    mf,         \* the arguments of a membership-function call
    mf_ret      \* history: name and value of the last membership call

vars == <<flc, result, exc, arg, ncalls, ran, viz, held, th, mf, mf_ret>>

(***************************************************************************)
(* Exact rational arithmetic.                                              *)
(***************************************************************************)
RECURSIVE GCD(_, _)
GCD(m, n) == IF n = 0 THEN m ELSE GCD(n, m % n)

Abs(n) == IF n < 0 THEN -n ELSE n

LCM(m, n) == (m \div GCD(m, n)) * n

Rat(n, d) == LET g == GCD(Abs(n), d) IN <<n \div g, d \div g>>

R(n) == <<n, 1>>

ZeroDivisionError == <<0, 0>>

RLe(p, q) == p[1] * q[2] <= q[1] * p[2]

RLt(p, q) == p[1] * q[2] < q[1] * p[2]

RSub(p, q) == Rat(p[1] * q[2] - q[1] * p[2], p[2] * q[2])

RDiv(p, q) ==
    IF q[1] = 0 THEN ZeroDivisionError
    ELSE IF q[1] > 0 THEN Rat(p[1] * q[2], p[2] * q[1])
    ELSE Rat(-(p[1] * q[2]), -(p[2] * q[1]))

\* Python's min and max of two numbers.
RMin(p, q) == IF RLe(p, q) THEN p ELSE q

RMax(p, q) == IF RLe(q, p) THEN p ELSE q

(***************************************************************************)
(* The membership library.                                                 *)
(***************************************************************************)
\* A triangle whose rising slope is measured against the whole base.
triangular_base_slope(x, a, b, c) ==
    IF RLe(x, a) \/ RLe(c, x) THEN R(0)
    ELSE IF RLt(a, x) /\ RLe(x, b) THEN RDiv(RSub(x, a), RSub(c, a))
    ELSE RDiv(RSub(c, x), RSub(c, b))

triangular_membership(x, a, b, c) ==
    IF RLe(x, a) \/ RLe(c, x) THEN R(0)
    ELSE IF RLt(a, x) /\ RLe(x, b) THEN RDiv(RSub(x, a), RSub(b, a))
    ELSE RDiv(RSub(c, x), RSub(c, b))

\* A trapezoid whose zero branch is strict (x < a or x > d): at x = d = c
\* the falling branch divides by d - c = 0.
trapezoidal_strict_zero(x, a, b, c, d) ==
    IF RLt(x, a) \/ RLt(d, x) THEN R(0)
    ELSE IF RLt(a, x) /\ RLe(x, b) THEN RDiv(RSub(x, a), RSub(b, a))
    ELSE IF RLt(b, x) /\ RLe(x, c) THEN R(1)
    ELSE RDiv(RSub(d, x), RSub(d, c))

\* A trapezoid whose falling slope is measured from b instead of c.
trapezoidal_fall_from_b(x, a, b, c, d) ==
    IF RLe(x, a) \/ RLe(d, x) THEN R(0)
    ELSE IF RLt(a, x) /\ RLe(x, b) THEN RDiv(RSub(x, a), RSub(b, a))
    ELSE IF RLt(b, x) /\ RLe(x, c) THEN R(1)
    ELSE RDiv(RSub(d, x), RSub(d, b))

trapezoidal_membership(x, a, b, c, d) ==
    IF RLe(x, a) \/ RLe(d, x) THEN R(0)
    ELSE IF RLt(a, x) /\ RLe(x, b) THEN RDiv(RSub(x, a), RSub(b, a))
    ELSE IF RLt(b, x) /\ RLe(x, c) THEN R(1)
    ELSE RDiv(RSub(d, x), RSub(d, c))

(***************************************************************************)
(* The variable fuzzifiers: one membership vector per input variable.      *)
(***************************************************************************)
get_credit_score_membership(score) ==
    [poor      |-> trapezoidal_membership(score, R(300), R(300), R(500), R(580)),
     fair      |-> triangular_membership(score, R(500), R(620), R(720)),
     good      |-> triangular_membership(score, R(650), R(720), R(780)),
     excellent |-> trapezoidal_membership(score, R(720), R(800), R(850), R(850))]

get_debt_ratio_membership(ratio) ==
    [low    |-> trapezoidal_membership(ratio, R(0), R(0), R(20), R(35)),
     medium |-> triangular_membership(ratio, R(25), R(40), R(55)),
     high   |-> trapezoidal_membership(ratio, R(45), R(60), R(100), R(100))]

get_income_membership(income) ==
    [low    |-> trapezoidal_membership(income, R(0), R(0), R(30000), R(50000)),
     medium |-> triangular_membership(income, R(35000), R(70000), R(120000)),
     high   |-> trapezoidal_membership(income, R(80000), R(150000), R(200000), R(200000))]

get_employment_membership(duration) ==
    [short  |-> trapezoidal_membership(duration, R(0), R(0), R(1), R(3)),
     medium |-> triangular_membership(duration, R(2), R(5), R(10)),
     long   |-> trapezoidal_membership(duration, R(7), R(15), R(40), R(40))]

\* Output shapes whose 'review' trapezoid lies at the low end of the axis.
get_approval_membership_inverse_low_review(approval_level) ==
    CASE approval_level = "reject"  -> <<0, 0, 15, 35>>
      [] approval_level = "review"  -> <<0, 10, 20, 30>>
      [] approval_level = "approve" -> <<65, 85, 100, 100>>

\* The parameters of the output membership functions.
get_approval_membership_inverse(approval_level) ==
    CASE approval_level = "reject"  -> <<0, 0, 15, 35>>
      [] approval_level = "review"  -> <<20, 40, 60, 80>>
      [] approval_level = "approve" -> <<65, 85, 100, 100>>

get_interest_membership_inverse(rate_level) ==
    CASE rate_level = "low"    -> <<3, 3, 6, 9>>
      [] rate_level = "medium" -> <<7, 10, 14, 17>>
      [] rate_level = "high"   -> <<15, 20, 25, 25>>

\* The strengths with rule 7 read as an OR: max instead of min.
RuleStrengthRule7Or(k, mem) ==
    CASE k = 1 -> RMin(mem.credit.excellent, mem.debt.low)
      [] k = 2 -> RMin(RMin(mem.credit.good, mem.debt.low), mem.income.high)
      [] k = 3 -> RMin(RMin(mem.credit.good, mem.debt.medium),
                       RMax(mem.income.medium, mem.income.high))
      [] k = 4 -> RMin(RMin(mem.credit.fair, mem.debt.low), mem.employment.long)
      [] k = 5 -> RMin(mem.credit.fair, mem.debt.medium)
      [] k = 6 -> RMax(mem.credit.poor, mem.debt.high)
      [] k = 7 -> RMax(mem.income.low, mem.employment.short)
      [] k = 8 -> RMin(mem.credit.excellent, mem.debt.medium)

(***************************************************************************)
(* The rule engine.  mem holds the four membership vectors.  The code is   *)
(* eight consecutive blocks, one per rule; block k computes the strength,  *)
(* raises one approval and one interest category to it with max, and       *)
(* appends (description, strength) to self.rule_details.                   *)
(***************************************************************************)
\* Rule 6 read as a conjunction (min) instead of the disjunction (max).
RuleStrengthRule6And(k, mem) ==
    CASE k = 1 -> RMin(mem.credit.excellent, mem.debt.low)
      [] k = 2 -> RMin(RMin(mem.credit.good, mem.debt.low), mem.income.high)
      [] k = 3 -> RMin(RMin(mem.credit.good, mem.debt.medium),
                       RMax(mem.income.medium, mem.income.high))
      [] k = 4 -> RMin(RMin(mem.credit.fair, mem.debt.low), mem.employment.long)
      [] k = 5 -> RMin(mem.credit.fair, mem.debt.medium)
      [] k = 6 -> RMin(mem.credit.poor, mem.debt.high)
      [] k = 7 -> RMin(mem.income.low, mem.employment.short)
      [] k = 8 -> RMin(mem.credit.excellent, mem.debt.medium)

RuleStrength(k, mem) ==
    CASE k = 1 -> RMin(mem.credit.excellent, mem.debt.low)
      [] k = 2 -> RMin(RMin(mem.credit.good, mem.debt.low), mem.income.high)
      [] k = 3 -> RMin(RMin(mem.credit.good, mem.debt.medium),
                       RMax(mem.income.medium, mem.income.high))
      [] k = 4 -> RMin(RMin(mem.credit.fair, mem.debt.low), mem.employment.long)
      [] k = 5 -> RMin(mem.credit.fair, mem.debt.medium)
      [] k = 6 -> RMax(mem.credit.poor, mem.debt.high)
      [] k = 7 -> RMin(mem.income.low, mem.employment.short)
      [] k = 8 -> RMin(mem.credit.excellent, mem.debt.medium)

\* The output categories block k raises.
RuleApproval ==
    <<"approve", "approve", "approve", "review", "review", "reject", "reject", "approve">>

\* A rule table whose block 7 raises the medium rate.
RuleInterestRule7Medium ==
    <<"low", "low", "medium", "medium", "medium", "high", "medium", "medium">>

RuleInterest ==
    <<"low", "low", "medium", "medium", "medium", "high", "high", "medium">>

RuleText ==
    <<"Rule 1: Excellent credit + Low debt -> Approve + Low interest",
      "Rule 2: Good credit + Low debt + High income -> Approve + Low interest",
      "Rule 3: Good credit + Medium debt + Medium/High income -> Approve + Medium interest",
      "Rule 4: Fair credit + Low debt + Long employment -> Review + Medium interest",
      "Rule 5: Fair credit + Medium debt -> Review + Medium interest",
      "Rule 6: Poor credit OR High debt -> Reject + High interest",
      "Rule 7: Low income + Short employment -> Reject + High interest",
      "Rule 8: Excellent credit + Medium debt -> Approve + Medium interest">>

\* The order of the eight blocks in the source.
RuleOrder == <<1, 2, 3, 4, 5, 6, 7, 8>>

\* A block that overwrites its output categories instead of taking the max.
RaiseOutputsOverwrite(acc, k, strength) ==
    [approval_output |->
         [acc.approval_output EXCEPT ![RuleApproval[k]] = strength],
     interest_output |->
         [acc.interest_output EXCEPT ![RuleInterest[k]] = strength],
     rule_details |-> Append(acc.rule_details, <<RuleText[k], strength>>)]

\* The three statements of block k that follow the strength: the two max
\* updates and the append.
RaiseOutputs(acc, k, strength) ==
    [approval_output |->
         [acc.approval_output EXCEPT ![RuleApproval[k]] = RMax(@, strength)],
     interest_output |->
         [acc.interest_output EXCEPT ![RuleInterest[k]] = RMax(@, strength)],
     rule_details |-> Append(acc.rule_details, <<RuleText[k], strength>>)]

\* One rule block, applied to the accumulators acc.
FireRule(acc, k, mem) == RaiseOutputs(acc, k, RuleStrength(k, mem))

\* The first n blocks of order, run from the accumulators start.
RECURSIVE FireRules(_, _, _, _)
FireRules(order, n, mem, start) ==
    IF n = 0 THEN start
    ELSE FireRule(FireRules(order, n - 1, mem, start), order[n], mem)

\* The accumulators as the code initialises them on every call.
FreshOutputs ==
    [approval_output |-> [reject |-> R(0), review |-> R(0), approve |-> R(0)],
     interest_output |-> [low |-> R(0), medium |-> R(0), high |-> R(0)],
     rule_details    |-> <<>>]

\* Accumulators that survive from the previous call: every category starts
\* at the strength the retained rule_details gave it.
RECURSIVE StaleOutputs(_, _)
StaleOutputs(details, n) ==
    IF n = 0 THEN FreshOutputs
    ELSE LET acc == StaleOutputs(details, n - 1)
             strength == details[n][2]
         IN  [acc EXCEPT !.approval_output[RuleApproval[n]] = RMax(@, strength),
                         !.interest_output[RuleInterest[n]] = RMax(@, strength)]

\* The keys apply_fuzzy_rules reads from inputs, in the order it reads them.
InputKeys == <<"credit_score", "debt_ratio", "income", "employment_duration">>

\* A KeyError that does not carry the key.
KeyErrorUnnamed(key) == [type |-> "KeyError", args |-> <<>>]

\* KeyError(key), as inputs[key] raises it for an absent key.
KeyError(key) == [type |-> "KeyError", args |-> <<key>>]

\* The first key read that inputs does not hold, if there is one.
FirstMissing(inputs) ==
    IF \A k \in 1..Len(InputKeys) : InputKeys[k] \in DOMAIN inputs THEN <<>>
    ELSE <<InputKeys[CHOOSE k \in 1..Len(InputKeys) :
                        /\ InputKeys[k] \notin DOMAIN inputs
                        /\ \A j \in 1..(k - 1) : InputKeys[j] \in DOMAIN inputs]>>

\* An exception leaving a method: nothing is returned, self is as it was
\* when the exception was raised.
\* An exception raised after the log of the controller was emptied.
RaiseAfterReset(self, exception) ==
    [self |-> ("rule_details" :> <<>>) @@ self, ret |-> <<>>,
     raised |-> <<exception>>]

Raise(self, exception) == [self |-> self, ret |-> <<>>, raised |-> <<exception>>]

Fuzzify(inputs) ==
    [credit     |-> get_credit_score_membership(inputs.credit_score),
     debt       |-> get_debt_ratio_membership(inputs.debt_ratio),
     income     |-> get_income_membership(inputs.income),
     employment |-> get_employment_membership(inputs.employment_duration)]

\* Setting attribute name of object self (creating it if absent).
SetAttr(self, name, value) == (name :> value) @@ self

HasAttr(self, name) == name \in DOMAIN self

\* An apply_fuzzy_rules that appends to the list the controller already
\* holds instead of starting a new one.
RulesReturnAccumulate(self, out) ==
    [self   |-> SetAttr(self, "rule_details",
                        IF HasAttr(self, "rule_details")
                        THEN self["rule_details"] \o out.rule_details
                        ELSE out.rule_details),
     ret    |-> [approval |-> out.approval_output, interest |-> out.interest_output],
     raised |-> <<>>]

\* The end of apply_fuzzy_rules: self.rule_details holds the list built and
\* the two output dictionaries are returned.
RulesReturn(self, out) ==
    [self   |-> SetAttr(self, "rule_details", out.rule_details),
     ret    |-> [approval |-> out.approval_output, interest |-> out.interest_output],
     raised |-> <<>>]

\* Output accumulators that are not reset per call.
RuleStartStale(self) ==
    IF HasAttr(self, "rule_details")
    THEN StaleOutputs(self["rule_details"], Len(self["rule_details"]))
    ELSE FreshOutputs

\* The accumulators at the start of a call: all zero, an empty list.
RuleStart(self) == FreshOutputs

\* Returns the new state of self and the returned dictionary, or the
\* KeyError of the first absent key (raised before self is written).
apply_fuzzy_rules(self, inputs) ==
    IF FirstMissing(inputs) # <<>>
    THEN Raise(self, KeyError(FirstMissing(inputs)[1]))
    ELSE RulesReturn(self, FireRules(RuleOrder, Len(RuleOrder), Fuzzify(inputs),
                                     RuleStart(self)))

(***************************************************************************)
(* The defuzzifier.                                                        *)
(***************************************************************************)
\* The sample count of both np.linspace calls.
NumSamples == 1000

\* np.linspace(lo, hi, NumSamples): point i (from 1) is
\* lo + (i - 1) * (hi - lo) / (NumSamples - 1).
linspace(lo, hi) ==
    [i \in 1..NumSamples |->
        Rat(lo * (NumSamples - 1) + (i - 1) * (hi - lo), NumSamples - 1)]

\* The categories of an axis, in the order of membership_values.items().
Levels(output_type) ==
    IF output_type = "approval" THEN <<"reject", "review", "approve">>
    ELSE <<"low", "medium", "high">>

UniverseBounds(output_type) ==
    IF output_type = "approval" THEN <<0, 100>> ELSE <<3, 25>>

LevelRange(output_type, level) ==
    IF output_type = "approval" THEN get_approval_membership_inverse(level)
    ELSE get_interest_membership_inverse(level)

\* A level clipped from below: the larger of strength and shape.
ClipLevelMax(strength, x, p) ==
    RMax(strength, trapezoidal_membership(x, R(p[1]), R(p[2]), R(p[3]), R(p[4])))

\* min(strength, self.trapezoidal_membership(x, a, b, c, d))
ClipLevel(strength, x, p) ==
    RMin(strength, trapezoidal_membership(x, R(p[1]), R(p[2]), R(p[3]), R(p[4])))

\* if strength > 0
LevelActive(strength) == RLt(R(0), strength)

\* One pass of the loop over membership_values.items().
AggregateLevel(aggregated, strength, universe, p) ==
    IF LevelActive(strength)
    THEN [i \in 1..NumSamples |->
             RMax(aggregated[i], ClipLevel(strength, universe[i], p))]
    ELSE aggregated

\* The aggregated array after the loop has handled the first n levels.
RECURSIVE Aggregate(_, _, _, _)
Aggregate(membership_values, output_type, universe, n) ==
    IF n = 0 THEN [i \in 1..NumSamples |-> R(0)]
    ELSE AggregateLevel(Aggregate(membership_values, output_type, universe, n - 1),
                        membership_values[Levels(output_type)[n]],
                        universe,
                        LevelRange(output_type, Levels(output_type)[n]))

(***************************************************************************)
(* The two sums of the centroid.  With D a common denominator of the       *)
(* heights and H_i = aggregated[i] * D, and since                          *)
(*    universe[i] = lo + (i - 1) * (hi - lo) / (NumSamples - 1),           *)
(*    sum(universe * aggregated) / sum(aggregated)                         *)
(*       = lo + (hi - lo) * (sum((i - 1) * H_i) / sum(H_i))                *)
(*                        / (NumSamples - 1).                              *)
(* sum((i - 1) * H_i) is kept as quo * sum(H_i) + rem, which keeps every   *)
(* intermediate value small.                                               *)
(***************************************************************************)
RECURSIVE CommonDen(_, _, _)
CommonDen(f, lo, hi) ==
    IF lo = hi THEN f[lo][2]
    ELSE LET mid == (lo + hi) \div 2
         IN  LCM(CommonDen(f, lo, mid), CommonDen(f, mid + 1, hi))

RECURSIVE SumHeights(_, _, _, _)
SumHeights(f, D, lo, hi) ==
    IF lo = hi THEN f[lo][1] * (D \div f[lo][2])
    ELSE LET mid == (lo + hi) \div 2
         IN  SumHeights(f, D, lo, mid) + SumHeights(f, D, mid + 1, hi)

RECURSIVE SumMoments(_, _, _, _, _)
SumMoments(f, D, den, lo, hi) ==
    IF lo = hi
    THEN LET t == (lo - 1) * (f[lo][1] * (D \div f[lo][2]))
         IN  <<t \div den, t % den>>
    ELSE LET mid == (lo + hi) \div 2
             l == SumMoments(f, D, den, lo, mid)
             r == SumMoments(f, D, den, mid + 1, hi)
         IN  <<l[1] + r[1] + (l[2] + r[2]) \div den, (l[2] + r[2]) % den>>

(***************************************************************************)
(* A Centroid [lo, span, steps, quo, rem, den] is the real number          *)
(*       lo + span * (quo + rem / den) / steps,    0 <= rem < den.         *)
(***************************************************************************)
\* <<e, f>> with k * r = e * den + f and 0 <= f < den, for 0 <= r < den.
RECURSIVE MulDiv(_, _, _)
MulDiv(k, r, den) ==
    IF k = 0 THEN <<0, 0>>
    ELSE LET h == MulDiv(k \div 2, r, den)
             t == 2 * h[2] + (k % 2) * r
         IN  <<2 * h[1] + t \div den, t % den>>

\* c >= t, for an integer t.
CentroidGe(c, t) ==
    c.span * c.quo + MulDiv(c.span, c.rem, c.den)[1] >= (t - c.lo) * c.steps

\* A + f / den, divided by steps and rounded to the nearest integer, ties
\* to the even one; base is the integer added to the result.
RoundQuotient(base, A, f, den, steps) ==
    LET t == steps - 2 * (A % steps)
        above == t < 0 \/ (t = 0 /\ f > 0) \/ (t = 1 /\ 2 * f > den)
        tie == (t = 0 /\ f = 0) \/ (t = 1 /\ 2 * f = den)
        down == base + A \div steps
    IN  IF above \/ (tie /\ down % 2 = 1) THEN down + 1 ELSE down

RoundScaled(c, ef) ==
    RoundQuotient(100 * c.lo, 100 * c.span * c.quo + ef[1], ef[2], c.den, c.steps)

\* round(c, 2) as a number of hundredths.
RoundHundredths(c) == RoundScaled(c, MulDiv(100 * c.span, c.rem, c.den))

\* round(c, 2)
Round2(c) == Rat(RoundHundredths(c), 100)

\* No activation answered with the left end of the universe.
\* A fallback that returns the middle index instead of the point at it.
NoActivationIndex(universe) == R(Len(universe) \div 2)

\* universe[len(universe)//2], the index counted from 0.
NoActivationValue(universe) == universe[(Len(universe) \div 2) + 1]

\* The centroid at grid index idx (a rational).
CentroidAt(output_type, idx) ==
    [lo    |-> UniverseBounds(output_type)[1],
     span  |-> UniverseBounds(output_type)[2] - UniverseBounds(output_type)[1],
     steps |-> NumSamples - 1,
     quo   |-> idx[1] \div idx[2], rem |-> idx[1] % idx[2], den |-> idx[2]]

\* The grid index of point x: x = lo + span * index / steps.
GridIndex(output_type, x) ==
    RDiv(RSub(x, R(UniverseBounds(output_type)[1])),
         Rat(UniverseBounds(output_type)[2] - UniverseBounds(output_type)[1],
             NumSamples - 1))

\* np.sum(universe * aggregated) / np.sum(aggregated), from the moments m.
CentroidOfSums(output_type, m, den) ==
    [lo    |-> UniverseBounds(output_type)[1],
     span  |-> UniverseBounds(output_type)[2] - UniverseBounds(output_type)[1],
     steps |-> NumSamples - 1,
     quo   |-> m[1], rem |-> m[2], den |-> den]

\* The last lines of centroid_defuzzification: the fallback when the
\* heights sum to 0, the centroid otherwise.
CoreWithSum(output_type, universe, aggregated, D, den) ==
    [universe   |-> universe,
     aggregated |-> aggregated,
     centroid   |->
        IF den = 0
        THEN CentroidAt(output_type, GridIndex(output_type, NoActivationValue(universe)))
        ELSE CentroidOfSums(output_type,
                            SumMoments(aggregated, D, den, 1, NumSamples), den)]

CoreWithDen(output_type, universe, aggregated, D) ==
    CoreWithSum(output_type, universe, aggregated, D,
                SumHeights(aggregated, D, 1, NumSamples))

CoreOfAggregated(output_type, universe, aggregated) ==
    CoreWithDen(output_type, universe, aggregated,
                CommonDen(aggregated, 1, NumSamples))

CoreOnUniverse(membership_values, output_type, universe) ==
    CoreOfAggregated(output_type, universe,
                     Aggregate(membership_values, output_type, universe, 3))

\* The pure part of centroid_defuzzification: the universe, the aggregated
\* array and the value returned.
CentroidCore(membership_values, output_type) ==
    CoreOnUniverse(membership_values, output_type,
                   linspace(UniverseBounds(output_type)[1],
                            UniverseBounds(output_type)[2]))

(***************************************************************************)
(* The inputs explored.                                                    *)
(***************************************************************************)
NumApplicants == 60

MaxCalls == 2

MaxParam == 3

XDen == 2

ApplicantInput(credit_score, debt_ratio, income, employment_duration) ==
    [credit_score |-> credit_score, debt_ratio |-> debt_ratio,
     income |-> income, employment_duration |-> employment_duration]

\* The applicants of examples/test_basic.py, one whose approval centroid
\* falls just below a decision threshold, and two outside the declared
\* ranges.
Scenarios ==
    {ApplicantInput(R(800), R(10), R(100000), R(10)),
     ApplicantInput(R(400), R(70), R(20000), Rat(1, 2)),
     ApplicantInput(R(650), R(35), R(50000), R(3)),
     ApplicantInput(R(700), R(30), R(60000), R(4)),
     ApplicantInput(R(698), R(51), R(40000), R(0)),
     ApplicantInput(R(250), R(-10), R(-5000), R(-1)),
     ApplicantInput(R(900), R(120), R(250000), R(45))}

CreditSamples == <<R(300), R(540), R(650), R(720), R(800), R(850), R(900)>>

DebtSamples == <<R(0), R(10), R(30), R(40), R(70)>>

IncomeSamples == <<R(20000), R(40000), R(100000), R(200000)>>

EmploymentSamples == <<R(2), R(4), R(10)>>

\* Applicant k of the sample grid (the four lengths are pairwise coprime,
\* so the first 420 are distinct).
SampleApplicant(k) ==
    ApplicantInput(CreditSamples[(k % Len(CreditSamples)) + 1],
                   DebtSamples[(k % Len(DebtSamples)) + 1],
                   IncomeSamples[(k % Len(IncomeSamples)) + 1],
                   EmploymentSamples[(k % Len(EmploymentSamples)) + 1])

\* Applicants with fully excellent credit and fully low debt whose income
\* or employment keeps the low-income/short-employment rule from firing,
\* at and inside the edges of that region.
ExcellentApplicants ==
    {ApplicantInput(R(800), Rat(1, 2), R(50000), R(0)),
     ApplicantInput(R(800), R(20), R(0), R(3)),
     ApplicantInput(R(825), R(10), R(20000), R(40)),
     ApplicantInput(Rat(1699, 2), R(20), R(200000), Rat(1, 2)),
     ApplicantInput(R(849), R(1), R(250000), R(-1)),
     ApplicantInput(R(849), R(15), R(-5000), R(45))}

\* Applicants with fully poor credit, the other three fields at their
\* best, at their worst and outside the declared ranges.
PoorApplicants ==
    {ApplicantInput(R(301), R(1), R(200000), R(40)),
     ApplicantInput(R(301), R(100), R(0), R(0)),
     ApplicantInput(R(450), R(40), R(70000), R(5)),
     ApplicantInput(R(500), R(10), R(150000), R(15)),
     ApplicantInput(R(500), R(-10), R(250000), R(45)),
     ApplicantInput(Rat(601, 2), R(120), R(-5000), R(-1))}

\* Applicants for whom only rules 4 and 5 fire.
ReviewApplicants ==
    {ApplicantInput(R(600), R(30), R(100000), R(10)),
     ApplicantInput(R(620), R(40), R(60000), R(4)),
     ApplicantInput(R(590), R(26), R(200000), R(40)),
     ApplicantInput(R(640), R(15), R(60000), R(11)),
     ApplicantInput(R(610), R(45), R(100000), R(10))}

\* Dictionaries that lack some of the four keys: every proper subset of
\* the keys of the first test scenario, the empty dictionary included.
Restrict(inputs, keys) == [key \in keys |-> inputs[key]]

IncompleteInputs ==
    {Restrict(ApplicantInput(R(800), R(10), R(100000), R(10)), keys) :
        keys \in (SUBSET {InputKeys[k] : k \in 1..Len(InputKeys)})
                     \ {{InputKeys[k] : k \in 1..Len(InputKeys)}}}

Applicants ==
    Scenarios \cup ExcellentApplicants \cup PoorApplicants \cup ReviewApplicants
        \cup {SampleApplicant(k) : k \in 0..(NumApplicants - 1)}

\* Ordered shape parameters 0 <= a <= b <= c <= d <= MaxParam and inputs x
\* in steps of 1/XDen from below 0 to above MaxParam.
MembershipArgs ==
    {[x |-> Rat(k, XDen), a |-> R(a), b |-> R(b), c |-> R(c), d |-> R(d)] :
        k \in (-1)..(MaxParam * XDen + 1),
        a \in 0..MaxParam, b \in 0..MaxParam, c \in 0..MaxParam,
        d \in 0..MaxParam} \ 
    {args \in [x : {Rat(k, XDen) : k \in (-1)..(MaxParam * XDen + 1)},
               a : {R(n) : n \in 0..MaxParam}, b : {R(n) : n \in 0..MaxParam},
               c : {R(n) : n \in 0..MaxParam}, d : {R(n) : n \in 0..MaxParam}] :
        ~(RLe(args.a, args.b) /\ RLe(args.b, args.c) /\ RLe(args.c, args.d))}

(***************************************************************************)
(* The controller.                                                         *)
(***************************************************************************)
\* A constructor that also sets the trace attributes, empty.
NewControllerWithTrace ==
    [credit_score_range        |-> <<300, 850>>,
     debt_ratio_range          |-> <<0, 100>>,
     income_range              |-> <<0, 200000>>,
     employment_duration_range |-> <<0, 40>>,
     approval_score_range      |-> <<0, 100>>,
     interest_rate_range       |-> <<3, 25>>,
     rule_details              |-> <<>>,
     approval_universe         |-> <<>>,
     approval_aggregated       |-> <<>>,
     interest_universe         |-> <<>>,
     interest_aggregated       |-> <<>>]

\* The attributes __init__ sets.
NewController ==
    [credit_score_range        |-> <<300, 850>>,
     debt_ratio_range          |-> <<0, 100>>,
     income_range              |-> <<0, 200000>>,
     employment_duration_range |-> <<0, 40>>,
     approval_score_range      |-> <<0, 100>>,
     interest_rate_range       |-> <<3, 25>>]

\* CentroidCore tabulated over the aggregated outputs of the applicants
\* explored (each entry is computed once).
TableKey(membership_values, output_type) ==
    <<output_type,
      membership_values[Levels(output_type)[1]],
      membership_values[Levels(output_type)[2]],
      membership_values[Levels(output_type)[3]]>>

KeyValues(key) ==
    (Levels(key[1])[1] :> key[2]) @@ (Levels(key[1])[2] :> key[3])
        @@ (Levels(key[1])[3] :> key[4])

KeysOf(outputs) ==
    {TableKey(outputs.approval, "approval"), TableKey(outputs.interest, "interest")}

CentroidTable ==
    [key \in UNION {KeysOf(apply_fuzzy_rules(NewController, inputs).ret) :
                        inputs \in Applicants}
        |-> CentroidCore(KeyValues(key), key[1])]

Tabulated(key, membership_values, output_type) ==
    IF key \in DOMAIN CentroidTable THEN CentroidTable[key]
    ELSE CentroidCore(membership_values, output_type)

\* The assignments to self.<axis>_aggregated and self.<axis>_universe, and
\* the value returned.
StoreAggregated(self, output_type, core) ==
    [self |-> SetAttr(SetAttr(self, output_type \o "_aggregated", core.aggregated),
                      output_type \o "_universe", core.universe),
     ret  |-> core.centroid]

\* Returns the new state of self and the centroid.
centroid_defuzzification(self, membership_values, output_type) ==
    StoreAggregated(self, output_type,
                    Tabulated(TableKey(membership_values, output_type),
                              membership_values, output_type))

\* The decision thresholds, applied to the unrounded centroid.
Decide(approval_score) ==
    IF CentroidGe(approval_score, 70) THEN "APPROVED"
    ELSE IF CentroidGe(approval_score, 40) THEN "REQUIRES REVIEW"
    ELSE "REJECTED"

\* A result dictionary without the echo of the inputs.
MakeResultNoEcho(rule_outputs, approval_score, interest, inputs) ==
    [self   |-> interest.self,
     ret    |-> [approval_score   |-> Round2(approval_score),
                 interest_rate    |-> Round2(interest.ret),
                 decision         |-> Decide(approval_score),
                 rule_activations |-> rule_outputs],
     raised |-> <<>>]

\* The result dictionary, and self as the second defuzzification left it.
MakeResult(rule_outputs, approval_score, interest, inputs) ==
    [self   |-> interest.self,
     ret    |-> [approval_score   |-> Round2(approval_score),
                 interest_rate    |-> Round2(interest.ret),
                 decision         |-> Decide(approval_score),
                 rule_activations |-> rule_outputs,
                 inputs           |-> inputs],
     raised |-> <<>>]

\* evaluate_loan_application from its second defuzzification on.
DefuzzifyInterest(rules, approval, inputs) ==
    MakeResult(rules.ret, approval.ret,
               centroid_defuzzification(approval.self, rules.ret.interest, "interest"),
               inputs)

\* evaluate_loan_application from its first defuzzification on; an
\* exception of apply_fuzzy_rules is not caught and leaves the call.
DefuzzifyOutputs(rules, inputs) ==
    IF rules.raised # <<>> THEN rules
    ELSE DefuzzifyInterest(rules,
                           centroid_defuzzification(rules.self, rules.ret.approval,
                                                    "approval"),
                           inputs)

\* Returns the new state of self and the result dictionary, or the
\* exception raised.
evaluate_loan_application(self, inputs) ==
    DefuzzifyOutputs(apply_fuzzy_rules(self, inputs), inputs)

(***************************************************************************)
(* Spec: any sequence of evaluate_loan_application calls on one            *)
(* controller.                                                             *)
(***************************************************************************)
NoCall == [x |-> R(0), a |-> R(0), b |-> R(0), c |-> R(0), d |-> R(0)]

\* The variables of the sequential calls, of the visualizer, of the
\* concurrent calls and of the membership calls.
callVars == <<result, exc, arg, ncalls>>

vizVars == <<ran, viz, held>>

memVars == <<mf, mf_ret>>

\* No call is running concurrently.
NoThreads == [frames |-> <<>>, last |-> 0, preemptions |-> 0]

Init ==
    /\ flc = NewController
    /\ result = <<>>
    /\ exc = <<>>
    /\ arg = <<>>
    /\ ncalls = 0
    /\ ran = {}
    /\ viz = <<>>
    /\ held = {}
    /\ th = NoThreads
    /\ mf = NoCall
    /\ mf_ret = <<>>

Evaluate(inputs) ==
    /\ ncalls < MaxCalls
    /\ LET call == evaluate_loan_application(flc, inputs)
       IN  /\ flc' = call.self
           /\ result' = IF call.raised = <<>> THEN <<call.ret>> ELSE <<>>
           /\ exc' = call.raised
    /\ arg' = <<inputs>>
    /\ ncalls' = ncalls + 1
    /\ UNCHANGED <<vizVars, th, memVars>>

Next == \E inputs \in Applicants \cup IncompleteInputs : Evaluate(inputs)

Spec == Init /\ [][Next]_vars

(***************************************************************************)
(* SpecMembership: one of the two membership functions applied to ordered  *)
(* shape parameters and an input.                                          *)
(***************************************************************************)
InitMembership ==
    /\ flc = NewController
    /\ result = <<>>
    /\ exc = <<>>
    /\ arg = <<>>
    /\ ncalls = 0
    /\ ran = {}
    /\ viz = <<>>
    /\ held = {}
    /\ th = NoThreads
    /\ mf \in MembershipArgs
    /\ mf_ret = <<>>

CallTriangular ==
    /\ mf_ret' = <<"triangular", triangular_membership(mf.x, mf.a, mf.b, mf.c)>>
    /\ UNCHANGED <<flc, callVars, vizVars, th, mf>>

CallTrapezoidal ==
    /\ mf_ret' = <<"trapezoidal", trapezoidal_membership(mf.x, mf.a, mf.b, mf.c, mf.d)>>
    /\ UNCHANGED <<flc, callVars, vizVars, th, mf>>

NextMembership == CallTriangular \/ CallTrapezoidal

SpecMembership == InitMembership /\ [][NextMembership]_vars

(***************************************************************************)
(* SpecConcurrent: two evaluate_loan_application calls running on one      *)
(* controller, their statements interleaved.  A frame holds the local      *)
(* variables of a call; self is shared.  A step is one statement that      *)
(* reads or writes self, together with the local statements before it.     *)
(***************************************************************************)
\* The number of times a call that has not finished is taken off the
\* processor in favour of the other.
MaxPreemptions == 1

Threads == {1, 2}

\* The call of a thread before its first statement.
NewFrame(inputs) ==
    [inputs          |-> inputs,
     pc              |-> "enter",
     k               |-> 0,
     approval_output |-> <<>>,
     interest_output |-> <<>>,
     aggregated      |-> <<>>,
     approval_score  |-> <<>>,
     interest_rate   |-> <<>>,
     ret             |-> <<>>,
     raised          |-> <<>>]

\* Lines 272-283: the four inputs[...] reads (the first absent key ends the
\* call with its KeyError), the two local dictionaries, and
\* self.rule_details = [].
StepEnter(self, frame) ==
    IF FirstMissing(frame.inputs) # <<>>
    THEN [self  |-> self,
          frame |-> [frame EXCEPT !.pc = "done",
                                  !.raised = <<KeyError(FirstMissing(frame.inputs)[1])>>]]
    ELSE [self  |-> SetAttr(self, "rule_details", FreshOutputs.rule_details),
          frame |-> [frame EXCEPT !.pc = "rule", !.k = 1,
                                  !.approval_output = FreshOutputs.approval_output,
                                  !.interest_output = FreshOutputs.interest_output]]

\* The accumulators a rule block works on: the two local dictionaries and
\* the list self.rule_details names when the block appends.
BlockAccumulators(self, frame) ==
    [approval_output |-> frame.approval_output,
     interest_output |-> frame.interest_output,
     rule_details    |-> self["rule_details"]]

\* The frame and self after block frame.k left the accumulators acc.
AfterBlock(self, frame, acc) ==
    [self  |-> SetAttr(self, "rule_details", acc.rule_details),
     frame |-> [frame EXCEPT !.approval_output = acc.approval_output,
                             !.interest_output = acc.interest_output,
                             !.k  = IF frame.k = Len(RuleOrder) THEN 0 ELSE frame.k + 1,
                             !.pc = IF frame.k = Len(RuleOrder)
                                    THEN "approval_aggregated" ELSE "rule"]]

\* One rule block (lines 285-332).
StepRule(self, frame) ==
    AfterBlock(self, frame,
               FireRule(BlockAccumulators(self, frame), RuleOrder[frame.k],
                        Fuzzify(frame.inputs)))

\* The membership_values a defuzzification of the frame was called with.
FrameOutputs(frame, output_type) ==
    IF output_type = "approval" THEN frame.approval_output ELSE frame.interest_output

\* Lines 339-368 (or 371): the local aggregated array, then
\* self.<axis>_aggregated = aggregated.
StepAggregated(self, frame, output_type) ==
    [self  |-> SetAttr(self, output_type \o "_aggregated",
                       Tabulated(TableKey(FrameOutputs(frame, output_type), output_type),
                                 FrameOutputs(frame, output_type),
                                 output_type).aggregated),
     frame |-> [frame EXCEPT !.pc = output_type \o "_universe",
                             !.aggregated =
                                 Tabulated(TableKey(FrameOutputs(frame, output_type),
                                                    output_type),
                                           FrameOutputs(frame, output_type),
                                           output_type).aggregated]]

\* A centroid taken from the array the controller holds.
AggregatedOfSelf(self, frame, output_type) == self[output_type \o "_aggregated"]

\* The array the last lines of centroid_defuzzification sum: the local one.
AggregatedOfFrame(self, frame, output_type) == frame.aggregated

\* The fallback or centroid of an aggregated array (lines 374-379).
CentroidOfArray(aggregated, output_type) ==
    IF \E key \in DOMAIN CentroidTable :
           key[1] = output_type /\ CentroidTable[key].aggregated = aggregated
    THEN CentroidTable[CHOOSE key \in DOMAIN CentroidTable :
                           key[1] = output_type
                           /\ CentroidTable[key].aggregated = aggregated].centroid
    ELSE CoreOfAggregated(output_type,
                          linspace(UniverseBounds(output_type)[1],
                                   UniverseBounds(output_type)[2]),
                          aggregated).centroid

\* Lines 369 (or 372) to 379: self.<axis>_universe = universe, then the value
\* returned, which evaluate_loan_application keeps in a local variable.
StepUniverse(self, frame, output_type) ==
    [self  |-> SetAttr(self, output_type \o "_universe",
                       linspace(UniverseBounds(output_type)[1],
                                UniverseBounds(output_type)[2])),
     frame |-> IF output_type = "approval"
               THEN [frame EXCEPT !.pc = "interest_aggregated",
                                  !.approval_score =
                                      <<CentroidOfArray(
                                            AggregatedOfFrame(self, frame, output_type),
                                            output_type)>>]
               ELSE [frame EXCEPT !.pc = "return",
                                  !.interest_rate =
                                      <<CentroidOfArray(
                                            AggregatedOfFrame(self, frame, output_type),
                                            output_type)>>]]

\* Lines 431-445: the decision and the result dictionary.
StepReturn(self, frame) ==
    [self  |-> self,
     frame |-> [frame EXCEPT
                   !.pc = "done",
                   !.ret = <<MakeResult([approval |-> frame.approval_output,
                                         interest |-> frame.interest_output],
                                        frame.approval_score[1],
                                        [self |-> self, ret |-> frame.interest_rate[1]],
                                        frame.inputs).ret>>]]

\* The next step of a call.
Step(self, frame) ==
    CASE frame.pc = "enter" -> StepEnter(self, frame)
      [] frame.pc = "rule"  -> StepRule(self, frame)
      [] frame.pc = "approval_aggregated" -> StepAggregated(self, frame, "approval")
      [] frame.pc = "approval_universe"   -> StepUniverse(self, frame, "approval")
      [] frame.pc = "interest_aggregated" -> StepAggregated(self, frame, "interest")
      [] frame.pc = "interest_universe"   -> StepUniverse(self, frame, "interest")
      [] frame.pc = "return" -> StepReturn(self, frame)

\* The inputs of the concurrent calls: an approved applicant, one for whom
\* several rules fire, and a dictionary without debt_ratio.
ConcurrentInputs ==
    {ApplicantInput(R(800), R(10), R(100000), R(10)),
     ApplicantInput(R(698), R(51), R(40000), R(0)),
     Restrict(ApplicantInput(R(650), R(35), R(50000), R(3)),
              {"credit_score", "income", "employment_duration"})}

InitConcurrent ==
    /\ flc = NewController
    /\ result = <<>>
    /\ exc = <<>>
    /\ arg = <<>>
    /\ ncalls = 0
    /\ ran = {}
    /\ viz = <<>>
    /\ held = {}
    /\ th \in {[frames |-> [t \in Threads |-> NewFrame(inputs[t])],
               last |-> 0, preemptions |-> 0] :
                  inputs \in [Threads -> ConcurrentInputs]}
    /\ mf = NoCall
    /\ mf_ret = <<>>

\* Thread t takes the place of a thread that has not finished its call.
Preempts(t) ==
    /\ th.last # 0
    /\ th.last # t
    /\ th.frames[th.last].pc # "done"

\* Thread t runs its next step.
Run(t) ==
    /\ th.frames[t].pc # "done"
    /\ Preempts(t) => th.preemptions < MaxPreemptions
    /\ LET out == Step(flc, th.frames[t])
       IN  /\ flc' = out.self
           /\ th' = [frames      |-> [th.frames EXCEPT ![t] = out.frame],
                     last        |-> t,
                     preemptions |-> IF Preempts(t) THEN th.preemptions + 1
                                     ELSE th.preemptions]
    /\ UNCHANGED <<callVars, vizVars, memVars>>

NextConcurrent == \E t \in Threads : Run(t)

SpecConcurrent == InitConcurrent /\ [][NextConcurrent]_vars

(***************************************************************************)
(* SpecVisualize: the public methods of one controller called in any       *)
(* order: evaluate_loan_application, apply_fuzzy_rules and                 *)
(* centroid_defuzzification called directly, and                           *)
(* visualize_inference_process.  The drawing itself (matplotlib) is left   *)
(* out: what is modelled is every read of result and of self the method    *)
(* makes, in the order it makes them.                                      *)
(***************************************************************************)
\* Python objects passed as the result argument.
Dict(items) == [type |-> "dict", items |-> items]

None == [type |-> "NoneType", items |-> <<>>]

AttributeError(name) == [type |-> "AttributeError", args |-> <<name>>]

\* Subscripting an object that is no dictionary.
TypeError(type) == [type |-> "TypeError", args |-> <<type>>]

\* The subscripts and attributes visualize_inference_process reads, in the
\* order it first reads them: <<object, key or attribute>>.
VisualizeReads ==
    << <<"result", "inputs">>,
       <<"inputs", "credit_score">>,
       <<"inputs", "debt_ratio">>,
       <<"inputs", "income">>,
       <<"inputs", "employment_duration">>,
       <<"self", "rule_details">>,
       <<"self", "approval_universe">>,
       <<"self", "approval_aggregated">>,
       <<"result", "approval_score">>,
       <<"self", "interest_universe">>,
       <<"self", "interest_aggregated">>,
       <<"result", "interest_rate">>,
       <<"result", "decision">> >>

\* Whether a read raises: a key the dictionary lacks, an attribute the
\* controller lacks.
ReadFails(self, res, read) ==
    CASE read[1] = "self"   -> ~HasAttr(self, read[2])
      [] read[1] = "result" -> read[2] \notin DOMAIN res
      [] read[1] = "inputs" -> read[2] \notin DOMAIN res["inputs"]

\* The exception of a failing read.
ReadError(read) ==
    IF read[1] = "self" THEN AttributeError(read[2]) ELSE KeyError(read[2])

\* The index of the first read from i on that raises, 0 if none does.
RECURSIVE FirstFailure(_, _, _)
FirstFailure(self, res, i) ==
    IF i > Len(VisualizeReads) THEN 0
    ELSE IF ReadFails(self, res, VisualizeReads[i]) THEN i
    ELSE FirstFailure(self, res, i + 1)

\* What the panels of the inference process show: the bar of each rule,
\* the two aggregated curves and the two centroid lines.
Figure(self, res) ==
    [rule_strengths      |-> [k \in DOMAIN self["rule_details"] |->
                                 self["rule_details"][k][2]],
     approval_aggregated |-> self["approval_aggregated"],
     centroid_approval   |-> res["approval_score"],
     interest_aggregated |-> self["interest_aggregated"],
     centroid_interest   |-> res["interest_rate"]]

\* The method up to the failing read, or to its end; figure is what
\* plt.show() displays.
VisualizeFrom(self, res, i) ==
    IF i = 0
    THEN [self |-> self, ret |-> <<>>, raised |-> <<>>,
          figure |-> <<Figure(self, res)>>]
    ELSE [self |-> self, ret |-> <<>>, raised |-> <<ReadError(VisualizeReads[i])>>,
          figure |-> <<>>]

\* Returns None after the figure is shown, or the exception raised; self
\* is only read.
visualize_inference_process(self, res) ==
    IF res.type # "dict"
    THEN [self |-> self, ret |-> <<>>, raised |-> <<TypeError(res.type)>>,
          figure |-> <<>>]
    ELSE VisualizeFrom(self, res.items, FirstFailure(self, res.items, 1))

\* The applications evaluated in this specification: two applicants of
\* examples/test_basic.py and the first without its income.
VisualizeInputs ==
    {ApplicantInput(R(800), R(10), R(100000), R(10)),
     ApplicantInput(R(400), R(70), R(20000), Rat(1, 2)),
     Restrict(ApplicantInput(R(800), R(10), R(100000), R(10)),
              {"credit_score", "debt_ratio", "employment_duration"})}

\* What evaluate_loan_application returns for them on a controller of
\* its own.
VisualizeResults ==
    {evaluate_loan_application(NewController, inputs).ret :
        inputs \in {i \in VisualizeInputs : FirstMissing(i) = <<>>}}

\* The result of the first scenario.
FirstResult ==
    evaluate_loan_application(NewController,
                              ApplicantInput(R(800), R(10), R(100000), R(10))).ret

\* The objects passed as result: the results above, the first of them
\* without its decision and with its inputs cut down, the empty dictionary
\* and None.
ResultArgs ==
    {Dict(r) : r \in VisualizeResults}
    \cup {Dict(Restrict(FirstResult, DOMAIN FirstResult \ {"decision"})),
          Dict([FirstResult EXCEPT
                   !["inputs"] = Restrict(FirstResult["inputs"], {"credit_score"})]),
          Dict(<<>>),
          None}

\* The rule outputs passed to centroid_defuzzification when it is called
\* directly.
VisualizeOutputs ==
    {r["rule_activations"] : r \in VisualizeResults}

InitVisualize == Init

\* evaluate_loan_application called, its result kept by the caller.
CallEvaluate(inputs) ==
    /\ LET call == evaluate_loan_application(flc, inputs)
       IN  /\ flc' = call.self
           /\ ran' = IF call.raised = <<>>
                     THEN ran \cup {"evaluate_loan_application"}
                     ELSE ran
           /\ held' = IF call.raised = <<>> THEN held \cup {call.ret} ELSE held
    /\ UNCHANGED <<callVars, viz, th, memVars>>

\* apply_fuzzy_rules called directly.
CallRules(inputs) ==
    /\ LET call == apply_fuzzy_rules(flc, inputs)
       IN  /\ flc' = call.self
           /\ ran' = IF call.raised = <<>> THEN ran \cup {"apply_fuzzy_rules"}
                     ELSE ran
    /\ UNCHANGED <<callVars, viz, held, th, memVars>>

\* centroid_defuzzification called directly.
CallCentroid(rule_outputs, output_type) ==
    /\ flc' = centroid_defuzzification(flc, rule_outputs[output_type], output_type).self
    /\ ran' = ran \cup {"centroid_defuzzification(" \o output_type \o ")"}
    /\ UNCHANGED <<callVars, viz, held, th, memVars>>

\* visualize_inference_process called; viz keeps the argument, whether
\* it is a result the caller got from this controller, the exception, the
\* figure drawn and the methods that had completed on the controller
\* before.
Visualize(res) ==
    /\ viz' = <<[result |-> res,
                 kept   |-> res.type = "dict" /\ res.items \in held,
                 raised |-> visualize_inference_process(flc, res).raised,
                 figure |-> visualize_inference_process(flc, res).figure,
                 after  |-> ran]>>
    /\ UNCHANGED <<flc, callVars, ran, held, th, memVars>>

NextVisualize ==
    \/ \E inputs \in VisualizeInputs : CallEvaluate(inputs)
    \/ \E inputs \in VisualizeInputs : CallRules(inputs)
    \/ \E rule_outputs \in VisualizeOutputs, output_type \in {"approval", "interest"} :
          CallCentroid(rule_outputs, output_type)
    \/ \E res \in ResultArgs : Visualize(res)

SpecVisualize == InitVisualize /\ [][NextVisualize]_vars

(***************************************************************************)
(* SpecFuzzify: one of the four variable fuzzifiers applied to a value of  *)
(* the variable's declared range, endpoints included.                      *)
(***************************************************************************)
\* The number of equal steps the declared range of a variable is cut into.
FuzzifyGrid == 40

\* The declared range of each input variable.
DeclaredRange ==
    [credit_score        |-> <<300, 850>>,
     debt_ratio          |-> <<0, 100>>,
     income              |-> <<0, 200000>>,
     employment_duration |-> <<0, 40>>]

\* Point k of the grid over the declared range of a variable.
RangePoint(variable, k) ==
    Rat(DeclaredRange[variable][1] * FuzzifyGrid
            + (DeclaredRange[variable][2] - DeclaredRange[variable][1]) * k,
        FuzzifyGrid)

FuzzifyArgs ==
    {[variable |-> InputKeys[v], x |-> RangePoint(InputKeys[v], k)] :
        v \in 1..Len(InputKeys), k \in 0..FuzzifyGrid}

InitFuzzify ==
    /\ flc = NewController
    /\ result = <<>>
    /\ exc = <<>>
    /\ arg = <<>>
    /\ ncalls = 0
    /\ ran = {}
    /\ viz = <<>>
    /\ held = {}
    /\ th = NoThreads
    /\ mf \in FuzzifyArgs
    /\ mf_ret = <<>>

CallCreditScore ==
    /\ mf.variable = "credit_score"
    /\ mf_ret' = <<mf.variable, get_credit_score_membership(mf.x)>>
    /\ UNCHANGED <<flc, callVars, vizVars, th, mf>>

CallDebtRatio ==
    /\ mf.variable = "debt_ratio"
    /\ mf_ret' = <<mf.variable, get_debt_ratio_membership(mf.x)>>
    /\ UNCHANGED <<flc, callVars, vizVars, th, mf>>

CallIncome ==
    /\ mf.variable = "income"
    /\ mf_ret' = <<mf.variable, get_income_membership(mf.x)>>
    /\ UNCHANGED <<flc, callVars, vizVars, th, mf>>

CallEmployment ==
    /\ mf.variable = "employment_duration"
    /\ mf_ret' = <<mf.variable, get_employment_membership(mf.x)>>
    /\ UNCHANGED <<flc, callVars, vizVars, th, mf>>

NextFuzzify == CallCreditScore \/ CallDebtRatio \/ CallIncome \/ CallEmployment

SpecFuzzify == InitFuzzify /\ [][NextFuzzify]_vars

(***************************************************************************)
(* Claims about the membership library (SpecMembership).                   *)
(***************************************************************************)
Returned(name) == mf_ret # <<>> /\ mf_ret[1] = name

IsDegree(v) == v[2] > 0 /\ RLe(R(0), v) /\ RLe(v, R(1))

\* C4: for ordered a <= b <= c <= d (degenerate cases included) and every x
\* with b <= x <= c, trapezoidal_membership(x, a, b, c, d) is exactly 1.
C4_TrapezoidPlateauIsOne ==
    (Returned("trapezoidal") /\ RLe(mf.b, mf.x) /\ RLe(mf.x, mf.c))
        => mf_ret[2] = R(1)

C7_MembershipTotal ==
    mf_ret # <<>> => (mf_ret[2] # ZeroDivisionError /\ mf_ret[2][2] > 0)

\* A fully degenerate shape (all parameters equal) was evaluated at its
\* single point and a value came back.
C7_Witness ==
    /\ Returned("trapezoidal")
    /\ mf.a = mf.b /\ mf.b = mf.c /\ mf.c = mf.d /\ mf.x = mf.a
    /\ mf_ret[2] = R(0)

(***************************************************************************)
(* Claims about evaluate_loan_application (Spec).                          *)
(***************************************************************************)
NoRuleFired(outputs) ==
    /\ \A level \in DOMAIN outputs.approval : outputs.approval[level] = R(0)
    /\ \A level \in DOMAIN outputs.interest : outputs.interest[level] = R(0)

InsideDeclaredRanges(inputs) ==
    /\ RLe(R(300), inputs.credit_score) /\ RLe(inputs.credit_score, R(850))
    /\ RLe(R(0), inputs.debt_ratio) /\ RLe(inputs.debt_ratio, R(100))
    /\ RLe(R(0), inputs.income) /\ RLe(inputs.income, R(200000))
    /\ RLe(R(0), inputs.employment_duration)
    /\ RLe(inputs.employment_duration, R(40))

C2_DecisionFollowsReturnedScore ==
    result # <<>> =>
        result[1].decision =
            IF RLe(R(70), result[1].approval_score) THEN "APPROVED"
            ELSE IF RLe(R(40), result[1].approval_score) THEN "REQUIRES REVIEW"
            ELSE "REJECTED"

\* C3: after any earlier calls on the controller, a call with input i
\* returns the same approval_score, interest_rate, decision and
\* rule_activations as a call with input i on a fresh controller.
C3_HistoryIndependent ==
    result # <<>> =>
        result[1] = evaluate_loan_application(NewController, result[1].inputs).ret

\* A call was made on a controller that earlier calls had already written
\* to, and at least one rule fired in it.
C3_Witness ==
    /\ result # <<>>
    /\ ncalls >= 2
    /\ HasAttr(flc, "rule_details")
    /\ ~NoRuleFired(result[1].rule_activations)

\* The fixed shape table of the input categories: three parameters are a
\* triangle, four a trapezoid.
ShapeTable ==
    [credit     |-> [poor      |-> <<300, 300, 500, 580>>,
                     fair      |-> <<500, 620, 720>>,
                     good      |-> <<650, 720, 780>>,
                     excellent |-> <<720, 800, 850, 850>>],
     debt       |-> [low    |-> <<0, 0, 20, 35>>,
                     medium |-> <<25, 40, 55>>,
                     high   |-> <<45, 60, 100, 100>>],
     income     |-> [low    |-> <<0, 0, 30000, 50000>>,
                     medium |-> <<35000, 70000, 120000>>,
                     high   |-> <<80000, 150000, 200000, 200000>>],
     employment |-> [short  |-> <<0, 0, 1, 3>>,
                     medium |-> <<2, 5, 10>>,
                     long   |-> <<7, 15, 40, 40>>]]

ShapeDegree(x, p) ==
    IF Len(p) = 3
    THEN triangular_membership(x, R(p[1]), R(p[2]), R(p[3]))
    ELSE trapezoidal_membership(x, R(p[1]), R(p[2]), R(p[3]), R(p[4]))

TableVector(variable, x) ==
    [category \in DOMAIN ShapeTable[variable]
        |-> ShapeDegree(x, ShapeTable[variable][category])]

\* The eight firing strengths as the closed forms give them.
StrengthsOf(credit, debt, income, employment) ==
    <<RMin(credit.excellent, debt.low),
      RMin(credit.good, RMin(debt.low, income.high)),
      RMin(credit.good, RMin(debt.medium, RMax(income.medium, income.high))),
      RMin(credit.fair, RMin(debt.low, employment.long)),
      RMin(credit.fair, debt.medium),
      RMax(credit.poor, debt.high),
      RMin(income.low, employment.short),
      RMin(credit.excellent, debt.medium)>>

TableStrengths(inputs) ==
    StrengthsOf(TableVector("credit", inputs.credit_score),
                TableVector("debt", inputs.debt_ratio),
                TableVector("income", inputs.income),
                TableVector("employment", inputs.employment_duration))

\* The strengths apply_fuzzy_rules logged, in block order.
LoggedStrengths(details) == [k \in 1..Len(details) |-> details[k][2]]

RuleOrders ==
    LET n == Len(RuleOrder)
    IN  {[i \in 1..n |-> RuleOrder[((i - 1 + s) % n) + 1]] : s \in 0..(n - 1)}
        \cup {[i \in 1..n |-> RuleOrder[n + 1 - i]]}
        \cup {[i \in 1..n |-> IF i = j THEN RuleOrder[j + 1]
                              ELSE IF i = j + 1 THEN RuleOrder[j]
                              ELSE RuleOrder[i]] : j \in 1..(n - 1)}

SameOutputs(out, acc) ==
    out.approval = acc.approval_output /\ out.interest = acc.interest_output

AxisTable ==
    [approval |-> [universe |-> <<0, 100>>,
                   shapes   |-> [reject  |-> <<0, 0, 15, 35>>,
                                 review  |-> <<20, 40, 60, 80>>,
                                 approve |-> <<65, 85, 100, 100>>]],
     interest |-> [universe |-> <<3, 25>>,
                   shapes   |-> [low    |-> <<3, 3, 6, 9>>,
                                 medium |-> <<7, 10, 14, 17>>,
                                 high   |-> <<15, 20, 25, 25>>]]]

\* Sample point i of n equally spaced points of [lo, hi], endpoints included.
GridPoint(bounds, i, n) ==
    Rat(bounds[1] * (n - 1) + (bounds[2] - bounds[1]) * (i - 1), n - 1)

\* The largest of a non-empty finite set of rationals.
RMaxOf(S) == CHOOSE v \in S : \A w \in S : RLe(w, v)

\* h(x): the maximum, over the categories with strength s > 0, of
\* min(s, trapezoid of the category at x); 0 when there is none.
HeightAt(strengths, shapes, x) ==
    RMaxOf({R(0)} \cup {RMin(strengths[level], ShapeDegree(x, shapes[level])) :
                           level \in {l \in DOMAIN shapes : RLt(R(0), strengths[l])}})

HeightsOf(strengths, axis) ==
    [i \in 1..NumSamples |->
        HeightAt(strengths, AxisTable[axis].shapes,
                 GridPoint(AxisTable[axis].universe, i, NumSamples))]

GridOf(axis) ==
    [i \in 1..NumSamples |-> GridPoint(AxisTable[axis].universe, i, NumSamples)]

\* sum(x_i * h(x_i)) / sum(h(x_i)) for the heights h over a common
\* denominator D, of sum den.
WeightedMeanWithSum(axis, h, D, den) ==
    CentroidOfSums(axis, SumMoments(h, D, den, 1, NumSamples), den)

WeightedMeanWithDen(axis, h, D) ==
    WeightedMeanWithSum(axis, h, D, SumHeights(h, D, 1, NumSamples))

WeightedMeanOfHeights(axis, h) ==
    [aggregated |-> h,
     centroid   |-> WeightedMeanWithDen(axis, h, CommonDen(h, 1, NumSamples))]

SomeStrengthPositive(strengths) ==
    \E level \in DOMAIN strengths : RLt(R(0), strengths[level])

\* The weighted means of the aggregated outputs the applicants produce
\* (each entry is computed once).
WeightedMeanTable ==
    [key \in {k \in DOMAIN CentroidTable : SomeStrengthPositive(KeyValues(k))}
        |-> WeightedMeanOfHeights(key[1], HeightsOf(KeyValues(key), key[1]))]

WeightedMean(strengths, axis) ==
    IF TableKey(strengths, axis) \in DOMAIN WeightedMeanTable
    THEN WeightedMeanTable[TableKey(strengths, axis)]
    ELSE WeightedMeanOfHeights(axis, HeightsOf(strengths, axis))

ScoreField(axis) == IF axis = "approval" THEN "approval_score" ELSE "interest_rate"

\* C10: for an aggregated output with a strength > 0, centroid_defuzzification
\* returns sum(x_i * h(x_i)) / sum(h(x_i)) over the equally spaced grid of the
\* axis universe ([0, 100] for approval, [3, 25] for interest), h(x) being the
\* maximum over the categories with strength s > 0 of min(s, trapezoid(x)).
C10_CentroidIsWeightedMean ==
    result # <<>> =>
        \A axis \in DOMAIN AxisTable :
            SomeStrengthPositive(result[1].rule_activations[axis]) =>
                /\ flc[axis \o "_universe"] = GridOf(axis)
                /\ flc[axis \o "_aggregated"] =
                       WeightedMean(result[1].rule_activations[axis], axis).aggregated
                /\ centroid_defuzzification(flc, result[1].rule_activations[axis],
                                            axis).ret =
                       WeightedMean(result[1].rule_activations[axis], axis).centroid
                /\ result[1][ScoreField(axis)] =
                       Round2(WeightedMean(result[1].rule_activations[axis],
                                           axis).centroid)

\* A call whose approval output had all three categories active at three
\* different strengths, so that the clipped shapes overlap.
C10_Witness ==
    /\ result # <<>>
    /\ HasAttr(flc, "approval_aggregated")
    /\ LET s == result[1].rule_activations.approval
       IN  /\ RLt(R(0), s.approve) /\ RLt(s.approve, s.review)
           /\ RLt(s.review, s.reject) /\ RLt(s.reject, R(1))
    /\ result[1].approval_score = R(40)

\* The centroid c is exactly the integer t.
CentroidIs(c, t) ==
    /\ c.span * c.quo + MulDiv(c.span, c.rem, c.den)[1] = (t - c.lo) * c.steps
    /\ MulDiv(c.span, c.rem, c.den)[2] = 0

AxisMidpoint(axis) ==
    (AxisTable[axis].universe[1] + AxisTable[axis].universe[2]) \div 2

\* C11: when every aggregated strength of an axis is 0,
\* centroid_defuzzification returns the midpoint of the axis universe, 50
\* for approval and 14 for interest.
C11_FallbackIsMidpoint ==
    result # <<>> =>
        \A axis \in DOMAIN AxisTable :
            ~SomeStrengthPositive(result[1].rule_activations[axis]) =>
                /\ CentroidIs(centroid_defuzzification(
                                  flc, result[1].rule_activations[axis], axis).ret,
                              AxisMidpoint(axis))
                /\ result[1][ScoreField(axis)] = R(AxisMidpoint(axis))

MissingKeys(inputs) == {InputKeys[k] : k \in 1..Len(InputKeys)} \ DOMAIN inputs

\* C12: when a required field is absent from the input,
\* evaluate_loan_application fails with an error that names a missing field
\* and reaches the caller; it returns no result.
C12_MissingFieldRaises ==
    (arg # <<>> /\ MissingKeys(arg[1]) # {}) =>
        /\ result = <<>>
        /\ exc # <<>>
        /\ exc[1].type = "KeyError"
        /\ Len(exc[1].args) = 1
        /\ exc[1].args[1] \in MissingKeys(arg[1])

\* A call whose input lacked debt_ratio and income, made on a controller an
\* earlier call had succeeded on, raised the KeyError of debt_ratio and
\* left the controller as that earlier call had left it.
C12_Witness ==
    /\ arg # <<>>
    /\ MissingKeys(arg[1]) = {"debt_ratio", "income"}
    /\ exc = <<KeyError("debt_ratio")>>
    /\ result = <<>>
    /\ HasAttr(flc, "rule_details")

\* C13: evaluate_loan_application raises ValueError whenever an input value
\* is outside its valid range (credit_score 300-850, debt_ratio 0-100,
\* income 0-200000, employment_duration 0-40).
C13_OutOfRangeRaisesValueError ==
    (arg # <<>> /\ MissingKeys(arg[1]) = {} /\ ~InsideDeclaredRanges(arg[1])) =>
        /\ result = <<>>
        /\ exc # <<>>
        /\ exc[1].type = "ValueError"

\* The last call returned decision with a score and a rate strictly inside
\* the given bounds.
ReturnedWithin(decisions, score_above, score_below, rate_above, rate_below) ==
    /\ result # <<>>
    /\ result[1].decision \in decisions
    /\ RLt(R(score_above), result[1].approval_score)
    /\ RLt(result[1].approval_score, R(score_below))
    /\ RLt(R(rate_above), result[1].interest_rate)
    /\ RLt(result[1].interest_rate, R(rate_below))

Complete(inputs) == inputs # <<>> /\ MissingKeys(inputs[1]) = {}

\* C14: an applicant with 800 <= credit_score < 850, 0 < debt_ratio <= 20 and
\* income >= 50000 or employment_duration >= 3 is APPROVED with
\* approval_score > 70 and interest_rate < 10.
C14_ExcellentApproved ==
    (/\ Complete(arg)
     /\ RLe(R(800), arg[1].credit_score) /\ RLt(arg[1].credit_score, R(850))
     /\ RLt(R(0), arg[1].debt_ratio) /\ RLe(arg[1].debt_ratio, R(20))
     /\ (RLe(R(50000), arg[1].income) \/ RLe(R(3), arg[1].employment_duration)))
        => ReturnedWithin({"APPROVED"}, 70, 101, 2, 10)

\* An applicant at the edge of the region (credit 800, debt 20, no income,
\* three years employed) was approved.
C14_Witness ==
    /\ arg = <<ApplicantInput(R(800), R(20), R(0), R(3))>>
    /\ ReturnedWithin({"APPROVED"}, 70, 101, 2, 10)

\* C15: an applicant with 300 < credit_score <= 500 is REJECTED with
\* approval_score < 40 and interest_rate > 15, whatever the other fields.
C15_PoorRejected ==
    (/\ Complete(arg)
     /\ RLt(R(300), arg[1].credit_score) /\ RLe(arg[1].credit_score, R(500)))
        => ReturnedWithin({"REJECTED"}, -1, 40, 15, 26)

\* An applicant with credit 500 and otherwise the best profile (low debt,
\* high income, long employment) was rejected.
C15_Witness ==
    /\ arg = <<ApplicantInput(R(500), R(10), R(150000), R(15))>>
    /\ ReturnedWithin({"REJECTED"}, -1, 40, 15, 26)

\* C16: when only 'review' fires on the approval axis (review > 0,
\* approve = 0, reject = 0) the decision is REQUIRES REVIEW or APPROVED, never
\* REJECTED, and 30 < approval_score < 80.
C16_ReviewOnly ==
    (/\ result # <<>>
     /\ RLt(R(0), result[1].rule_activations.approval.review)
     /\ result[1].rule_activations.approval.approve = R(0)
     /\ result[1].rule_activations.approval.reject = R(0))
        => ReturnedWithin({"REQUIRES REVIEW", "APPROVED"}, 30, 80, 2, 26)

\* Only 'review' fired, weakly (strength below 1/10), and the call asked
\* for a review.
C16_Witness ==
    /\ result # <<>>
    /\ RLt(R(0), result[1].rule_activations.approval.review)
    /\ RLt(result[1].rule_activations.approval.review, Rat(1, 10))
    /\ result[1].rule_activations.approval.approve = R(0)
    /\ result[1].rule_activations.approval.reject = R(0)
    /\ result[1].decision = "REQUIRES REVIEW"
    /\ result[1].approval_score = R(50)

\* C17: a successful call returns exactly the fields approval_score,
\* interest_rate, decision, rule_activations and inputs; decision is one of
\* APPROVED / REQUIRES REVIEW / REJECTED; rule_activations holds this call's
\* aggregated outputs under approval (reject, review, approve) and interest
\* (low, medium, high); inputs is the caller's input, its values unchanged.
C17_ResultFields ==
    result # <<>> =>
        /\ DOMAIN result[1] = {"approval_score", "interest_rate", "decision",
                               "rule_activations", "inputs"}
        /\ result[1].decision \in {"APPROVED", "REQUIRES REVIEW", "REJECTED"}
        /\ DOMAIN result[1].rule_activations = {"approval", "interest"}
        /\ DOMAIN result[1].rule_activations.approval = {"reject", "review", "approve"}
        /\ DOMAIN result[1].rule_activations.interest = {"low", "medium", "high"}
        /\ SameOutputs(result[1].rule_activations,
                       FireRules(RuleOrder, Len(RuleOrder), Fuzzify(arg[1]),
                                 FreshOutputs))
        /\ result[1].inputs = arg[1]
        /\ exc = <<>>

\* A second call on the controller, with a fractional employment duration,
\* returned the five fields and echoed the duration as passed.
C17_Witness ==
    /\ result # <<>>
    /\ ncalls >= 2
    /\ arg = <<ApplicantInput(R(400), R(70), R(20000), Rat(1, 2))>>
    /\ Cardinality(DOMAIN result[1]) = 5
    /\ result[1].inputs.employment_duration = Rat(1, 2)
    /\ result[1].decision = "REJECTED"

\* C19: after every successful call, in any sequence of calls, rule_details
\* holds exactly 8 (description, strength) entries in the order Rule 1 ..
\* Rule 8, the strengths being those of the most recent call's input only.
C19_RuleDetailsOfLastCall ==
    result # <<>> =>
        /\ HasAttr(flc, "rule_details")
        /\ Len(flc["rule_details"]) = 8
        /\ \A k \in 1..8 :
               flc["rule_details"][k] = <<RuleText[k], TableStrengths(arg[1])[k]>>

\* A later call on a controller that already held a log replaced it by its
\* own eight entries, some of them non-zero.
C19_Witness ==
    /\ result # <<>>
    /\ ncalls >= 2
    /\ HasAttr(flc, "rule_details")
    /\ Len(flc["rule_details"]) = 8
    /\ flc["rule_details"][6] = <<RuleText[6], Rat(2, 5)>>
    /\ flc["rule_details"][3] = <<RuleText[3], Rat(1, 7)>>

(***************************************************************************)
(* Claims about concurrent calls (SpecConcurrent).                         *)
(***************************************************************************)
\* What a call with inputs returns, or raises, when it runs alone.
Alone(inputs) ==
    [ret    |-> IF evaluate_loan_application(NewController, inputs).raised = <<>>
                THEN <<evaluate_loan_application(NewController, inputs).ret>>
                ELSE <<>>,
     raised |-> evaluate_loan_application(NewController, inputs).raised]

\* C18: for any interleaving of the steps of two calls running concurrently
\* on one controller, each call returns exactly the result it returns when
\* run alone.
C18_ConcurrentCallsAgree ==
    \A t \in DOMAIN th.frames :
        th.frames[t].pc = "done" =>
            /\ th.frames[t].ret = Alone(th.frames[t].inputs).ret
            /\ th.frames[t].raised = Alone(th.frames[t].inputs).raised

\* Two calls with different inputs both returned although one was taken
\* off the processor between two of its rule blocks: the log the
\* controller holds mixes the entries of both calls.
C18_Witness ==
    /\ DOMAIN th.frames = Threads
    /\ \A t \in Threads : th.frames[t].pc = "done" /\ th.frames[t].ret # <<>>
    /\ th.frames[1].inputs # th.frames[2].inputs
    /\ th.preemptions >= 1
    /\ Len(flc["rule_details"]) > Len(RuleOrder)

(***************************************************************************)
(* Claims about the visualizer (SpecVisualize).                            *)
(***************************************************************************)
Rendered == viz # <<>> /\ viz[1].raised = <<>>

\* The attributes the visualizer reads from the controller.
VisualizedFields ==
    {VisualizeReads[i][2] :
        i \in {j \in 1..Len(VisualizeReads) : VisualizeReads[j][1] = "self"}}

\* A freshly constructed controller raises, whatever result is passed.
FreshControllerFails ==
    (viz # <<>> /\ viz[1].after = {}) =>
        /\ viz[1].raised # <<>>
        /\ viz[1].raised[1].type \in {"AttributeError", "KeyError", "TypeError"}

\* C20 as stated: visualize_inference_process completes only if an
\* evaluate_loan_application call completed on the controller before it,
\* and on a freshly constructed controller it raises whatever result is
\* passed.
C20_VisualizeNeedsEvaluate ==
    /\ Rendered => "evaluate_loan_application" \in viz[1].after
    /\ FreshControllerFails

\* C20 amended: visualize_inference_process completes only if rule_details
\* and both aggregated curves with their universes are set on the
\* controller, which takes a completed evaluate_loan_application call or
\* completed direct calls of apply_fuzzy_rules and of
\* centroid_defuzzification for both axes; on a freshly constructed
\* controller it raises whatever result is passed.
C20_VisualizeNeedsFields ==
    /\ Rendered =>
          /\ VisualizedFields \subseteq DOMAIN flc
          /\ \/ "evaluate_loan_application" \in viz[1].after
             \/ {"apply_fuzzy_rules", "centroid_defuzzification(approval)",
                 "centroid_defuzzification(interest)"} \subseteq viz[1].after
    /\ FreshControllerFails

\* A complete result, returned by another controller, is passed to a
\* freshly constructed one: the read of self.rule_details raises.
C20_Witness ==
    /\ viz # <<>>
    /\ viz[1].after = {}
    /\ viz[1].result \in {Dict(r) : r \in VisualizeResults}
    /\ viz[1].raised = <<AttributeError("rule_details")>>
    /\ flc = NewController

(***************************************************************************)
(* Claims about the variable fuzzifiers (SpecFuzzify).                     *)
(***************************************************************************)
\* Whether a membership vector gives some category a non-zero degree.
SomeCategory(vector) == \E category \in DOMAIN vector : vector[category][1] # 0

\* C23: for each input variable and every value inside its declared range,
\* endpoints included, the fuzzifier gives a non-zero degree to at least
\* one category; credit_score 850 is excellent with degree 1 and
\* debt_ratio 0 is low with degree 1.
C23_CategoryCoverage ==
    mf_ret # <<>> =>
        /\ SomeCategory(mf_ret[2])
        /\ (mf.variable = "credit_score" /\ mf.x = R(850))
              => mf_ret[2].excellent = R(1)
        /\ (mf.variable = "debt_ratio" /\ mf.x = R(0))
              => mf_ret[2].low = R(1)

(***************************************************************************)
(* Claims about the two output axes (Spec).                                *)
(***************************************************************************)
\* Whether every strength of an axis is 0.
AllZero(strengths) == \A level \in DOMAIN strengths : strengths[level] = R(0)

\* Whether np.sum(aggregated) == 0, the test of the no-activation fallback:
\* the heights are never negative.
TakesFallback(aggregated) == \A i \in 1..NumSamples : aggregated[i][1] = 0

\* C24: for every input the aggregated approval reject strength equals the
\* aggregated interest high strength, the approval axis is all-zero
\* exactly when the interest axis is, and the approval defuzzifier takes
\* the no-activation fallback exactly when the interest defuzzifier does.
C24_AxesConsistent ==
    result # <<>> =>
        /\ result[1].rule_activations.approval.reject
              = result[1].rule_activations.interest.high
        /\ AllZero(result[1].rule_activations.approval)
              <=> AllZero(result[1].rule_activations.interest)
        /\ TakesFallback(flc["approval_aggregated"])
              <=> TakesFallback(flc["interest_aggregated"])
        /\ TakesFallback(flc["approval_aggregated"])
              <=> AllZero(result[1].rule_activations.approval)

\* A call for which the rejecting rules fired in part: reject and high
\* hold the same strength strictly between 0 and 1, and no axis took the
\* fallback.
C24_Witness ==
    /\ result # <<>>
    /\ RLt(R(0), result[1].rule_activations.approval.reject)
    /\ RLt(result[1].rule_activations.approval.reject, R(1))
    /\ result[1].rule_activations.interest.high
          = result[1].rule_activations.approval.reject
    /\ ~TakesFallback(flc["approval_aggregated"])
    /\ ~TakesFallback(flc["interest_aggregated"])

(***************************************************************************)
(* Claims about failed calls (Spec).                                       *)
(***************************************************************************)
\* A call was made in this step.
Called == ncalls' = ncalls + 1

\* What C22 asks of one step.
FailedCallStep ==
    /\ (Called /\ exc' # <<>>) =>
          /\ MissingKeys(arg'[1]) # {}
          /\ flc' = flc
          /\ result' = <<>>
    /\ (Called /\ exc # <<>> /\ exc' = <<>>) =>
          /\ result' = <<evaluate_loan_application(flc, arg'[1]).ret>>
          /\ result' = <<evaluate_loan_application(NewController, arg'[1]).ret>>
          /\ flc' = evaluate_loan_application(NewController, arg'[1]).self

\* C22: an evaluate_loan_application call that fails because an input field
\* is missing leaves every attribute of the controller as it was (set by
\* the last successful evaluation, or unset if there was none), and a
\* successful call that follows a failed one returns, and leaves on the
\* controller, what it returns and leaves when the failed call is not made.
C22_FailedCallLeavesState == [][FailedCallStep]_vars

\* The second call on a controller failed for a missing income and the
\* controller still holds the log and the curves of the first call, an
\* approved applicant.
C22_Witness ==
    /\ ncalls = 2
    /\ exc # <<>>
    /\ exc[1].args = <<"income">>
    /\ flc = evaluate_loan_application(
                 NewController, ApplicantInput(R(800), R(10), R(100000), R(10))).self

(***************************************************************************)
(* Claims about the trace concurrent calls leave (SpecConcurrent).         *)
(***************************************************************************)
\* Both concurrent calls have returned a result.
BothReturned ==
    /\ DOMAIN th.frames = Threads
    /\ \A t \in Threads : th.frames[t].pc = "done" /\ th.frames[t].ret # <<>>

\* The controller as a call with inputs leaves it when it runs alone.
LeftAlone(inputs) == evaluate_loan_application(NewController, inputs).self

\* C25: for any interleaving of two concurrent calls on one controller,
\* once both have finished rule_details holds exactly 8 entries, all of
\* one of the two inputs, and approval_aggregated and interest_aggregated
\* both belong to one and the same call.
C25_TraceCoherent ==
    BothReturned =>
        /\ Len(flc["rule_details"]) = Len(RuleOrder)
        /\ \E t \in Threads :
              flc["rule_details"] = LeftAlone(th.frames[t].inputs)["rule_details"]
        /\ \E t \in Threads :
              /\ flc["approval_aggregated"]
                    = LeftAlone(th.frames[t].inputs)["approval_aggregated"]
              /\ flc["interest_aggregated"]
                    = LeftAlone(th.frames[t].inputs)["interest_aggregated"]

(***************************************************************************)
(* Claims about what the visualizer draws (SpecVisualize).                 *)
(***************************************************************************)
\* The figure shown was drawn for a result this controller returned, and
\* only evaluate_loan_application calls had completed on it.
RenderedKeptResult ==
    /\ Rendered
    /\ viz[1].kept
    /\ viz[1].after = {"evaluate_loan_application"}

\* C21: for any sequence of evaluate_loan_application and
\* visualize_inference_process calls on one controller, the rule strengths
\* and the aggregated curves visualize_inference_process draws are those of
\* the evaluation that produced the result passed to it, also when other
\* evaluations were made in between.
C21_FigureOfPassedResult ==
    RenderedKeptResult =>
        /\ viz[1].figure[1].rule_strengths
              = [k \in 1..Len(RuleOrder) |->
                    LeftAlone(viz[1].result.items.inputs)["rule_details"][k][2]]
        /\ viz[1].figure[1].approval_aggregated
              = LeftAlone(viz[1].result.items.inputs)["approval_aggregated"]
        /\ viz[1].figure[1].interest_aggregated
              = LeftAlone(viz[1].result.items.inputs)["interest_aggregated"]

============================================================================
